---- MODULE Spec2Model ----
(***************************************************************************)
(* Model of WhaleTracker (profitable_whale_tracker_bot_adjusted.py): the   *)
(* position table, the fill aggregator with its debounce tasks, the close  *)
(* verifier, the periodic sweep and the monitor loop.                      *)
(*                                                                         *)
(* Scheduling.  Everything runs on one asyncio event loop.  The HTTP       *)
(* calls are blocking `requests` calls inside coroutines, so the only      *)
(* points where a flow yields are the asyncio.sleep calls: the aggregation *)
(* window (line 469), the delay before verification attempts 2..K (line    *)
(* 315) and the sleeps of the monitor loop (lines 769, 833, 842).  A flow  *)
(* that has not reached a sleep keeps the event loop: the predicate        *)
(* Running says so, and every action of another flow is disabled then.     *)
(* Durations are abstracted: a sleeping flow may wake at any later step.   *)
(*                                                                         *)
(* Numbers.  Sizes and prices are integers; a quotient the code computes   *)
(* in floating point (average price, change percentage) is kept as the     *)
(* pair [num, den] and compared by cross-multiplication.                   *)
(***************************************************************************)
EXTENDS Integers, Sequences, FiniteSets, TLC

VARIABLES positions, saved, pending_fills, fill_timers, tasks, seen_trades,
          loop, sweep, sent, ev

vars == <<positions, saved, pending_fills, fill_timers, tasks, seen_trades,
          loop, sweep, sent, ev>>

-----------------------------------------------------------------------------
(* Program constants *)

MIN_POSITION_VALUE == 100000

\* PARTIAL_CHANGE_THRESHOLD = 0.15, as a percentage
PARTIAL_CHANGE_THRESHOLD_PCT == 15

POSITION_CLOSE_VERIFY_ATTEMPTS == 3

\* the notional floor of queue_fill_for_aggregation and monitor_loop
MIN_FILL_NOTIONAL == 10000

\* the four tier thresholds of the BTC/ETH class, and the one of the others
TIER_100K == 100000

TIER_1M == 1000000

TIER_10M == 10000000

TIER_50M == 50000000

-----------------------------------------------------------------------------
(* Bounds *)

\* iterations of the monitor loop
MaxCycles == 2

\* the iterations of the monitor loop in the runs of polls (SpecBackoff)
MaxStreak == 7

\* the iterations of the monitor loop in the runs with exceptions (SpecAvail)
MaxAvailCycles == 3

\* the iterations of the monitor loop in the runs with a full seen-fill set
\* (SpecWindow)
MaxWindowCycles == 2

-----------------------------------------------------------------------------
(* Instruments, sides, keys *)

\* BTC is of the major class and SOL of the other class; DOGE stands for an
\* instrument the account holds but no fill of which is ever seen.
Coins == {"BTC", "SOL"}

AllCoins == Coins \cup {"DOGE"}

Keys == Coins \X {"B", "A"}

Abs(x) == IF x < 0 THEN -x ELSE x

Max(a, b) == IF a >= b THEN a ELSE b

-----------------------------------------------------------------------------
(* A Python dict with its insertion order: a sequence of records with a   *)
(* `coin` field, at most one per coin.                                    *)

Has(d, c) == \E i \in 1..Len(d) : d[i].coin = c

Idx(d, c) == CHOOSE i \in 1..Len(d) : d[i].coin = c

Get(d, c) == d[Idx(d, c)]

\* d[c] = v: an existing key keeps its place, a new key goes last
Put(d, c, v) == IF Has(d, c) THEN [d EXCEPT ![Idx(d, c)] = v] ELSE Append(d, v)

\* the deletion left out
Del_Missing(d, c) == d

\* del d[c]; the caller has checked that c is a key (KeyError otherwise)
Del(d, c) == SelectSeq(d, LAMBDA e : e.coin # c)

CoinsOf(d) == {d[i].coin : i \in 1..Len(d)}

\* an optional value: <<>> or <<v>>
Opt(d, c) == IF Has(d, c) THEN <<Get(d, c)>> ELSE <<>>

-----------------------------------------------------------------------------
(* Ground truth: the answer of the clearinghouseState request *)

\* one assetPositions item as the exchange sends it; hasMark says whether the
\* item carries a markPx field
RawPos(szi, entryPx, hasMark, markPx) ==
    [szi |-> szi, entryPx |-> entryPx, hasMark |-> hasMark, markPx |-> markPx]

\* the raw positions the exchange reports for an instrument: for BTC a
\* position below the minimum value (2 at the entry price 5000), in the 100K+
\* tier (2 at the mark 60000), in the 1M+ tier (20, 22, 23 at 60000, 10 % and
\* exactly 15 % apart), a short one and one of size zero
RawOptions(c) ==
    IF c = "BTC"
    THEN {RawPos(2, 5000, FALSE, 0)} \cup
         {RawPos(z, 5000, TRUE, 60000) : z \in {0, 2, 20, 22, 23, -20}}
    ELSE IF c = "SOL"
    THEN {RawPos(20, 5000, TRUE, 60000)}
    ELSE {RawPos(2, 5000, FALSE, 0)}

AllRaw == UNION {RawOptions(c) : c \in AllCoins}

\* the answers the exchange can give: a failure (timeout, non-200), or a 200
\* with any set of instruments, each with one of its raw positions
ResponsesOver(options) ==
    {[status |-> 502, assets |-> <<>>]} \cup
    {[status |-> 200, assets |-> f] :
        f \in UNION {{g \in [S -> AllRaw] : \A c \in S : g[c] \in options[c]}
                     : S \in SUBSET AllCoins}}

\* the same with one raw position per instrument, for the requests of which
\* only the set of instruments is read (lines 320-325 and 345-352)
ProbeOption(c) ==
    IF c = "DOGE" THEN RawOptions(c) ELSE {RawPos(20, 5000, TRUE, 60000)}

ProbeResponses == ResponsesOver([c \in AllCoins |-> ProbeOption(c)])

\* the same with three raw positions of BTC: below the minimum value, in the
\* 100K+ tier and in the 1M+ tier
CoreOption(c) ==
    IF c = "BTC"
    THEN {RawPos(2, 5000, FALSE, 0), RawPos(2, 5000, TRUE, 60000),
          RawPos(20, 5000, TRUE, 60000)}
    ELSE RawOptions(c)

CoreResponses == ResponsesOver([c \in AllCoins |-> CoreOption(c)])

\* every raw position of BTC, with or without DOGE beside it
FlushOption(c) == IF c = "SOL" THEN {} ELSE RawOptions(c)

FlushResponses == ResponsesOver([c \in AllCoins |-> FlushOption(c)])

FlushProbeOption(c) == IF c = "SOL" THEN {} ELSE ProbeOption(c)

FlushProbeResponses == ResponsesOver([c \in AllCoins |-> FlushProbeOption(c)])

\* lines 286-298: one snapshot entry out of one raw position
GtEntry(c, raw) ==
    LET entry_px      == raw.entryPx
        mark_px       == IF raw.hasMark THEN raw.markPx ELSE entry_px
        current_price == IF mark_px > 0 THEN mark_px ELSE entry_px
    IN  [coin          |-> c,
         size          |-> Abs(raw.szi),
         side          |-> IF raw.szi > 0 THEN "LONG" ELSE "SHORT",
         value         |-> Abs(raw.szi * current_price),
         avg_price     |-> entry_px,
         current_price |-> current_price]

\* get_whale_positions: {} on any failure, else the instruments of non-zero size
get_whale_positions(resp) ==
    IF resp.status # 200
    THEN <<>>
    ELSE [c \in {x \in DOMAIN resp.assets : resp.assets[x].szi # 0}
            |-> GtEntry(c, resp.assets[c])]

\* the emptiness test always failing
IsEmpty_Never(cur) == FALSE

\* `not current_positions`
IsEmpty(cur) == DOMAIN cur = {}

\* the answer holds no position: the request failed (lines 301-304) or every
\* item it lists has size zero (line 285)
NoPositionIn(resp) ==
    resp.status # 200 \/ \A c \in DOMAIN resp.assets : resp.assets[c].szi = 0

GtOpt(cur, c) == IF c \in DOMAIN cur THEN <<cur[c]>> ELSE <<>>

-----------------------------------------------------------------------------
(* Alerts *)

\* get_position_emoji_and_tier: the tier label
get_position_tier(coin, value) ==
    IF coin \in {"BTC", "ETH"}
    THEN IF value >= TIER_50M THEN "50M+"
         ELSE IF value >= TIER_10M THEN "10M+"
         ELSE IF value >= TIER_1M THEN "1M+"
         ELSE IF value >= TIER_100K THEN "100K+"
         ELSE ""
    ELSE IF value >= TIER_100K THEN "100K+" ELSE ""

NoPct == [num |-> 0, den |-> 1]

Alert(type, coin, side, value, tier, pct) ==
    [type |-> type, coin |-> coin, side |-> side, value |-> value,
     tier |-> tier, pct |-> pct]

\* send_open_alert(coin, side, value, price)
send_open_alert(coin, side, value) ==
    Alert("OPEN", coin, side, value, get_position_tier(coin, value), NoPct)

\* send_close_alert(coin, side, value, price, entry_price)
send_close_alert(coin, side, value) ==
    Alert("CLOSE", coin, side, value, get_position_tier(coin, value), NoPct)

\* send_partial_close_alert: the tier comes from the entry's max_value
send_partial_close_alert(coin, side, curr_value, max_value, reduction_pct) ==
    Alert("PARTIAL_CLOSE", coin, side, curr_value,
          get_position_tier(coin, max_value), reduction_pct)

\* send_partial_increase_alert: the tier comes from the entry's max_value
send_partial_increase_alert(coin, side, curr_value, max_value, increase_pct) ==
    Alert("PARTIAL_INCREASE", coin, side, curr_value,
          get_position_tier(coin, max_value), increase_pct)

-----------------------------------------------------------------------------
(* Close verifier: one iteration of the loop of verify_position_closed *)

\* what the attempt saw
Observation(coin, cur) ==
    IF IsEmpty(cur) THEN "empty"
    ELSE IF coin \in DOMAIN cur THEN "present" ELSE "absent"

\* a sighting counted on the last attempt only
VerifyOutcome_LastOnly(coin, attempt, cur) ==
    IF attempt + 1 < POSITION_CLOSE_VERIFY_ATTEMPTS
    THEN "next"
    ELSE IF coin \in DOMAIN cur THEN "exists" ELSE "closed"

\* the loop without its bound
VerifyOutcome_Unbounded(coin, attempt, cur) ==
    IF coin \in DOMAIN cur THEN "exists" ELSE "next"

\* "next": go on to the following attempt (after the delay);
\* "exists": return False; "closed": the loop is over, return True
VerifyOutcome(coin, attempt, cur) ==
    IF IsEmpty(cur) /\ attempt < POSITION_CLOSE_VERIFY_ATTEMPTS - 1
    THEN "next"
    ELSE IF coin \in DOMAIN cur
    THEN "exists"
    ELSE IF attempt + 1 < POSITION_CLOSE_VERIFY_ATTEMPTS
    THEN "next"
    ELSE "closed"

-----------------------------------------------------------------------------
(* Fill feed and aggregation *)

Trade(tid, coin, side, sz, px) ==
    [tid |-> tid, coin |-> coin, side |-> side, sz |-> sz, px |-> px]

\* the fills the account makes; the last one is below the notional floor
Feed ==
    {Trade(1, "BTC", "B", 1, 50000), Trade(2, "BTC", "B", 2, 60000),
     Trade(3, "BTC", "A", 2, 60000), Trade(4, "BTC", "A", 1, 5000)}

RECURSIVE SumSz(_)
SumSz(fills) ==
    IF fills = <<>> THEN 0 ELSE Head(fills).sz + SumSz(Tail(fills))

RECURSIVE SumPxSz(_)
SumPxSz(fills) ==
    IF fills = <<>> THEN 0 ELSE Head(fills).px * Head(fills).sz + SumPxSz(Tail(fills))

\* line 477
total_size(fills) == SumSz(fills)

\* line 478: the quotient sum(px * sz) / total_size
avg_price(fills) == [num |-> SumPxSz(fills), den |-> total_size(fills)]

\* line 481: avg_price * total_size
position_value(fills) == (avg_price(fills).num * total_size(fills)) \div avg_price(fills).den

-----------------------------------------------------------------------------
(* State *)

\* one entry of self.positions
Entry(coin, size, value, side, max_value, avg, current_price) ==
    [coin |-> coin, size |-> size, value |-> value, side |-> side,
     max_value |-> max_value, avg_price |-> avg, current_price |-> current_price]

\* line 488: the entry process_aggregated_fills inserts for an untracked coin
Placeholder(coin) == Entry(coin, 0, 0, "", 0, 0, 0)

\* lines 502-509 and 858-865: an entry made from a ground-truth position
FromGt(gt) ==
    Entry(gt.coin, gt.size, gt.value, gt.side, gt.value, gt.avg_price, gt.current_price)

\* what whale_positions.json can hold when the program starts
InitTables ==
    LET btc == FromGt(GtEntry("BTC", RawPos(20, 5000, TRUE, 60000)))
        sol == FromGt(GtEntry("SOL", RawPos(20, 5000, TRUE, 60000)))
    IN  {<<>>, <<btc>>, <<btc, sol>>}

\* a process_aggregated_fills task: its key, where it is suspended ("window":
\* line 469; "vsleep": line 315; "verify": it runs attempt 1 of the
\* verification without having slept) and the locals it carries across the
\* verification.  vlog and burst are history: what the attempts saw so far,
\* and the fills that re-armed the key's timer one after the other, each
\* before the timer of the one before it expired.
TaskRec(key, pc, attempt, prev_value, prev_side, vlog, burst) ==
    [key |-> key, pc |-> pc, attempt |-> attempt, prev_value |-> prev_value,
     prev_side |-> prev_side, vlog |-> vlog, burst |-> burst]

NewTask(key, burst) == TaskRec(key, "window", 0, 0, "", <<>>, burst)

NoSweep ==
    [todo |-> <<>>, coin |-> "", detached |-> <<>>, attempt |-> 0, vlog |-> <<>>,
     positions_closed |-> 0]

\* the last step: which operation, on which instrument and key side, how it
\* ended, and what it read (history, for stating the properties): the
\* snapshot (empty or not, the instrument's entry in it), the table entry
\* before the step, the verification attempts, the batch and its aggregates,
\* and the side and value the flow holds for the instrument
Ev0 ==
    [op |-> "init", coin |-> "", side |-> "", res |-> "", empty |-> FALSE,
     gt |-> <<>>, prev |-> <<>>, vlog |-> <<>>, batch |-> <<>>, burst |-> <<>>,
     total_size |-> 0, avg_price |-> NoPct, tracked_side |-> "", tracked_value |-> 0]

Event(op, coin, side, res) ==
    [Ev0 EXCEPT !.op = op, !.coin = coin, !.side = side, !.res = res]

\* a flow that holds the event loop: it has not reached its next sleep
Running ==
    \/ loop.pc \in {"sweep_start", "sweep_coin", "sweep_verify", "poll"}
    \/ \E t \in tasks : t.pc = "verify"

Init ==
    /\ positions \in InitTables
    /\ saved = positions
    /\ pending_fills = <<>>
    /\ fill_timers = {}
    /\ tasks = {}
    /\ seen_trades = {}
    /\ loop = [pc |-> "sleep", cycle |-> 0, error_count |-> 0, wait |-> 0]
    /\ sweep = NoSweep
    /\ sent = <<>>
    /\ ev = Ev0

-----------------------------------------------------------------------------
(* queue_fill_for_aggregation *)

\* the key's batch, [] when the key has none (pending_fills.get(key, []))
Batch(pf, key) == IF key \in DOMAIN pf THEN pf[key] ELSE <<>>

\* self.pending_fills[key].append(trade)
AppendFill(pf, key, trade) ==
    [k \in DOMAIN pf \cup {key} |-> IF k = key THEN Append(Batch(pf, key), trade) ELSE pf[k]]

\* del self.pending_fills[key]
DelKey(pf, key) == [k \in DOMAIN pf \ {key} |-> pf[k]]

\* the cancellation left out
Cancel_None(ts, key) == ts

\* a cancellation that reaches a task in its aggregation window only
Cancel_WindowOnly(ts, key) == {t \in ts : t.key # key \/ t.pc # "window"}

\* self.fill_timers[key].cancel(): the task stored for the key is cancelled
\* at the sleep it is suspended in (or before it ever runs); a finished task
\* is not affected
Cancel(ts, key) == {t \in ts : t.key # key}

\* the fills that re-armed the key's timer before it expired, this one included
Burst(ts, key, trade) ==
    IF \E t \in ts : t.key = key /\ t.pc = "window"
    THEN Append((CHOOSE t \in ts : t.key = key /\ t.pc = "window").burst, trade)
    ELSE <<trade>>

\* the floor left out
BelowFloor_Never(value) == FALSE

\* line 708: value < 10000
BelowFloor(value) == value < MIN_FILL_NOTIONAL

\* st = [pending_fills, fill_timers, tasks, queued]
queue_fill_for_aggregation(st, trade) ==
    LET key   == <<trade.coin, trade.side>>
        value == trade.sz * trade.px
    IN  IF BelowFloor(value)
        THEN st
        ELSE [st EXCEPT
                !.pending_fills = AppendFill(st.pending_fills, key, trade),
                !.fill_timers   = st.fill_timers \cup {key},
                !.tasks         = (IF key \in st.fill_timers
                                   THEN Cancel(st.tasks, key)
                                   ELSE st.tasks)
                                  \cup {NewTask(key, Burst(st.tasks, key, trade))},
                !.queued        = Append(st.queued, trade)]

-----------------------------------------------------------------------------
(* monitor_loop *)

SEEN_TRADES_MAX == 1000

SEEN_TRADES_KEEP == 500

\* one delivery of a fill by the feed; stale: its age exceeds max_trade_age
Deliveries == {[trade |-> tr, stale |-> s] : tr \in Feed, s \in BOOLEAN}

FreshDeliveries == {d \in Deliveries : ~d.stale}

\* one fill per key, both above the notional floor and delivered in time
CoreDeliveries == {d \in FreshDeliveries : d.trade.tid \in {2, 3}}

\* line 249: an answer holds at most 100 fills
TRADES_LIMIT == 100

\* the answers of get_whale_trades: [] on failure, else some fills
PollAnswers(deliveries) ==
    {a \in UNION {[1..n -> deliveries] : n \in 0..Cardinality(deliveries)} :
        /\ Len(a) <= TRADES_LIMIT
        /\ \A i, j \in 1..Len(a) : i # j => a[i].trade.tid # a[j].trade.tid}

\* the test of line 782 always failing
AlreadySeen_Never(seen, tid) == FALSE

\* line 782: trade_id in self.seen_trades
AlreadySeen(seen, tid) == tid \in seen

\* the age test always failing
TooOld_Never(d) == FALSE

\* line 791: age_seconds > max_trade_age_seconds
TooOld(d) == d.stale

\* lines 779-807: the body of `for trade in trades`, from the first trade on
RECURSIVE ProcessTrades(_, _)
ProcessTrades(st, trades) ==
    IF trades = <<>>
    THEN st
    ELSE LET d    == Head(trades)
             tr   == d.trade
             st1  == [st EXCEPT !.seen_trades = st.seen_trades \cup {tr.tid}]
         IN  IF AlreadySeen(st.seen_trades, tr.tid)
             THEN ProcessTrades(st, Tail(trades))
             ELSE IF TooOld(d)
             THEN ProcessTrades(st1, Tail(trades))
             ELSE IF tr.sz * tr.px >= MIN_FILL_NOTIONAL
             THEN ProcessTrades(queue_fill_for_aggregation(st1, tr), Tail(trades))
             ELSE ProcessTrades(st1, Tail(trades))

\* A set of ints is listed in the order of its hash table: an int is its own
\* hash and sits in the slot hash mod table size (the ids of the model have
\* distinct slots).  The table of a set that grew to 1001 ids has 2048 slots.
SET_TABLE_SIZE == 2048

Slot(tid) == tid % SET_TABLE_SIZE

\* how many ids of the set sit in slot s or after it
FromSlot(seen, s) == Cardinality({x \in seen : Slot(x) >= s})

\* the slot of the first of the last `keep` ids of list(seen), by bisection
\* between lo (at least `keep` ids from it on) and hi (fewer)
RECURSIVE FirstKeptSlot(_, _, _, _)
FirstKeptSlot(seen, keep, lo, hi) ==
    IF hi - lo <= 1
    THEN lo
    ELSE LET mid == (lo + hi) \div 2
         IN  IF FromSlot(seen, mid) >= keep
             THEN FirstKeptSlot(seen, keep, mid, hi)
             ELSE FirstKeptSlot(seen, keep, lo, mid)

\* lines 830-831: set(list(self.seen_trades)[-500:]) keeps the 500 ids that
\* come last in the set's iteration order, whenever they were recorded
Truncate(seen) ==
    IF Cardinality(seen) > SEEN_TRADES_MAX
    THEN LET first == FirstKeptSlot(seen, SEEN_TRADES_KEEP, 0, SET_TABLE_SIZE)
         IN  {x \in seen : Slot(x) >= first}
    ELSE seen

\* line 212: the default of check_interval_seconds
CHECK_INTERVAL == 2

\* line 768: the cap of the exponent and the ceiling of the wait
BACKOFF_EXP_CAP == 5

BACKOFF_MAX == 60

Min(a, b) == IF a <= b THEN a ELSE b

\* the ceiling left out
wait_time_NoCeiling(error_count) ==
    CHECK_INTERVAL * 2 ^ Min(error_count, BACKOFF_EXP_CAP)

\* line 768: the wait after error_count consecutive empty answers
wait_time(error_count) ==
    Min(CHECK_INTERVAL * 2 ^ Min(error_count, BACKOFF_EXP_CAP), BACKOFF_MAX)

\* the loop left by the exception, as line 837 does for KeyboardInterrupt
OnException_Break(l) == [l EXCEPT !.pc = "stopped"]

\* lines 838-842: an exception of the iteration is caught and printed, and
\* the loop sleeps twice the base interval before its next iteration
OnException(l) == [l EXCEPT !.pc = "sleep", !.wait = CHECK_INTERVAL * 2]

\* lines 753-759: the loop wakes up for its next iteration, of at most max;
\* `due` says whether 30 s have passed since the last sweep
Wake(due, max) ==
    /\ loop.pc = "sleep"
    /\ ~Running
    /\ loop.cycle < max
    /\ loop' = [loop EXCEPT !.cycle = loop.cycle + 1,
                            !.pc = IF due THEN "sweep_start" ELSE "poll"]
    /\ sent' = <<>>
    /\ ev' = Event("wake", "", "", IF due THEN "sweep" ELSE "poll")
    /\ UNCHANGED <<positions, saved, pending_fills, fill_timers, tasks,
                   seen_trades, sweep>>

LoopWake(due) == Wake(due, MaxCycles)

\* the same for a loop that never ends: the counter, which the code uses for
\* its printing only, stops at max
WakeOn(due, max) ==
    /\ loop.pc = "sleep"
    /\ ~Running
    /\ loop' = [loop EXCEPT !.cycle = Min(loop.cycle + 1, max),
                            !.pc = IF due THEN "sweep_start" ELSE "poll"]
    /\ sent' = <<>>
    /\ ev' = Event("wake", "", "", IF due THEN "sweep" ELSE "poll")
    /\ UNCHANGED <<positions, saved, pending_fills, fill_timers, tasks,
                   seen_trades, sweep>>

\* lines 761-833: the fill feed is polled and its fills are handled
Poll(answer) ==
    /\ loop.pc = "poll"
    /\ IF answer = <<>>
       THEN /\ loop' = [loop EXCEPT !.pc = "sleep",
                                    !.error_count = loop.error_count + 1,
                                    !.wait = wait_time(loop.error_count + 1)]
            /\ ev' = Event("poll", "", "", "empty")
            /\ UNCHANGED <<pending_fills, fill_timers, tasks, seen_trades>>
       ELSE LET st == ProcessTrades([pending_fills |-> pending_fills,
                                     fill_timers   |-> fill_timers,
                                     tasks         |-> tasks,
                                     seen_trades   |-> seen_trades,
                                     queued        |-> <<>>], answer)
            IN  /\ loop' = [loop EXCEPT !.pc = "sleep", !.error_count = 0,
                                         !.wait = CHECK_INTERVAL]
                /\ pending_fills' = st.pending_fills
                /\ fill_timers' = st.fill_timers
                /\ tasks' = st.tasks
                /\ seen_trades' = Truncate(st.seen_trades)
                /\ ev' = [Event("poll", "", "", "ok") EXCEPT !.batch = st.queued]
    /\ sent' = <<>>
    /\ UNCHANGED <<positions, saved, sweep>>

\* queue_fill_for_aggregation called for a fill the loop has just recorded,
\* as line 806 calls it, whatever the fill's notional: the function's own
\* test of line 708 decides
QueueFill(trade) ==
    /\ loop.pc = "poll"
    /\ ~AlreadySeen(seen_trades, trade.tid)
    /\ LET st == queue_fill_for_aggregation([pending_fills |-> pending_fills,
                                             fill_timers   |-> fill_timers,
                                             tasks         |-> tasks,
                                             seen_trades   |-> seen_trades,
                                             queued        |-> <<>>], trade)
       IN  /\ pending_fills' = st.pending_fills
           /\ fill_timers' = st.fill_timers
           /\ tasks' = st.tasks
           /\ ev' = [Event("queue", trade.coin, trade.side,
                           IF st.queued = <<>> THEN "dropped" ELSE "queued")
                       EXCEPT !.batch = <<trade>>]
    /\ seen_trades' = seen_trades \cup {trade.tid}
    /\ sent' = <<>>
    /\ UNCHANGED <<positions, saved, loop, sweep>>

-----------------------------------------------------------------------------
(* process_aggregated_fills *)

\* the comparison made strict
AtLeastThreshold_Strict(pct) == pct.num * 100 > PARTIAL_CHANGE_THRESHOLD_PCT * pct.den

\* change_pct >= PARTIAL_CHANGE_THRESHOLD, for change_pct = pct.num / pct.den
AtLeastThreshold(pct) == pct.num * 100 >= PARTIAL_CHANGE_THRESHOLD_PCT * pct.den

\* line 500: the gate of the OPEN alert; it reads the value of the batch and
\* not actual_position['value']
OpenGate(fills, actual_position) == position_value(fills) >= MIN_POSITION_VALUE

\* line 519: the gate of the CLOSE alert of a flushed batch
CloseGate(is_closed, prev_value) == is_closed /\ prev_value >= MIN_POSITION_VALUE

\* lines 538-544
IncreaseAlerted(prev, actual) ==
    [prev EXCEPT !.size = actual.size, !.value = actual.value,
                 !.avg_price = actual.avg_price,
                 !.current_price = actual.current_price,
                 !.max_value = Max(actual.value, prev.max_value)]

\* lines 546-551
IncreaseSilent(prev, actual) ==
    [prev EXCEPT !.size = actual.size, !.value = actual.value,
                 !.avg_price = actual.avg_price,
                 !.current_price = actual.current_price]

\* lines 559-563 and 565-569
Reduce(prev, actual) ==
    [prev EXCEPT !.size = actual.size, !.value = actual.value,
                 !.current_price = actual.current_price]

\* lines 487-576 and 584-598 without the close verification: the table after
\* the evaluation, how it ended, and the alert it sends
Reconcile(pos, coin, fills, cur) ==
    LET pos1   == IF Has(pos, coin) THEN pos ELSE Append(pos, Placeholder(coin))
        prev   == Get(pos1, coin)
        has    == coin \in DOMAIN cur
        actual == cur[coin]
        inc    == [num |-> actual.size - prev.size, den |-> prev.size]
        red    == [num |-> prev.size - actual.size, den |-> prev.size]
    IN  IF prev.size = 0 /\ has
        THEN IF OpenGate(fills, actual)
             THEN [res |-> "OPEN", positions |-> Put(pos1, coin, FromGt(actual)),
                   alerts |-> <<send_open_alert(coin, actual.side, actual.value)>>]
             ELSE [res |-> "below", positions |-> pos1, alerts |-> <<>>]
        ELSE IF prev.size > 0 /\ ~has
        THEN [res |-> "verify", positions |-> pos1, alerts |-> <<>>]
        ELSE IF prev.size > 0 /\ has
        THEN IF actual.size > prev.size
             THEN IF AtLeastThreshold(inc)
                  THEN LET e == IncreaseAlerted(prev, actual)
                       IN  [res |-> "PARTIAL_INCREASE",
                            positions |-> Put(pos1, coin, e),
                            alerts |-> <<send_partial_increase_alert(
                                           coin, e.side, e.value, e.max_value, inc)>>]
                  ELSE [res |-> "silent_increase",
                        positions |-> Put(pos1, coin, IncreaseSilent(prev, actual)),
                        alerts |-> <<>>]
             ELSE IF AtLeastThreshold(red)
                  THEN LET e == Reduce(prev, actual)
                       IN  [res |-> "PARTIAL_CLOSE",
                            positions |-> Put(pos1, coin, e),
                            alerts |-> <<send_partial_close_alert(
                                           coin, e.side, e.value, e.max_value, red)>>]
                  ELSE [res |-> "silent_reduce",
                        positions |-> Put(pos1, coin, Reduce(prev, actual)),
                        alerts |-> <<>>]
        ELSE [res |-> "noop", positions |-> pos1, alerts |-> <<>>]

\* the outcomes after which lines 584-604 run: alert, save_positions, cleanup
Alerted == {"OPEN", "PARTIAL_INCREASE", "PARTIAL_CLOSE", "CLOSE"}

\* The sweep holds tracked_pos, a reference to the entry object it read at
\* line 356.  An update in place (lines 538-569) shows through the
\* reference; once another flow replaces the entry (line 502) or deletes it
\* (line 522) the sweep keeps the old object.
Detach(sw, c, old) ==
    IF loop.pc = "sweep_sleep" /\ sw.coin = c /\ sw.detached = <<>>
    THEN [sw EXCEPT !.detached = <<old>>]
    ELSE sw

\* lines 467-513 and 529-604: the aggregation window of task t has expired
Fire(t, resp) ==
    /\ t \in tasks
    /\ t.pc = "window"
    /\ ~Running
    /\ LET key   == t.key
           coin  == key[1]
           fills == Batch(pending_fills, key)
           cur   == get_whale_positions(resp)
           r     == Reconcile(positions, coin, fills, cur)
           e     == [Event("fire", coin, key[2], r.res) EXCEPT
                       !.empty = IsEmpty(cur), !.gt = GtOpt(cur, coin),
                       !.prev = Opt(positions, coin), !.batch = fills,
                       !.burst = t.burst, !.total_size = total_size(fills),
                       !.avg_price = avg_price(fills)]
       IN  IF fills = <<>>
           THEN \* line 475
                /\ tasks' = tasks \ {t}
                /\ sent' = <<>>
                /\ ev' = Event("fire", coin, key[2], "nofills")
                /\ UNCHANGED <<positions, saved, pending_fills, fill_timers, sweep>>
           ELSE /\ positions' = r.positions
                /\ sent' = r.alerts
                /\ saved' = IF r.res \in Alerted THEN r.positions ELSE saved
                /\ sweep' = IF r.res = "OPEN" /\ Has(positions, coin)
                            THEN Detach(sweep, coin, Get(positions, coin))
                            ELSE sweep
                /\ IF r.res = "verify"
                   THEN /\ tasks' = (tasks \ {t}) \cup
                                    {[t EXCEPT !.pc = "verify", !.attempt = 0,
                                               !.prev_value = Get(positions, coin).value,
                                               !.prev_side = Get(positions, coin).side]}
                        /\ ev' = [e EXCEPT
                                    !.tracked_value = Get(positions, coin).value,
                                    !.tracked_side = Get(positions, coin).side]
                        /\ UNCHANGED <<pending_fills, fill_timers>>
                   ELSE /\ tasks' = tasks \ {t}
                        /\ pending_fills' = DelKey(pending_fills, key)
                        /\ fill_timers' = fill_timers \ {key}
                        /\ ev' = e
    /\ UNCHANGED <<seen_trades, loop>>


\* lines 515-527 and 584-604: task t makes one attempt of the verification it
\* called at line 517, the first one at once and the others after the delay
TaskVerify(t, resp) ==
    /\ t \in tasks
    /\ \/ t.pc = "verify"
       \/ t.pc = "vsleep" /\ ~Running
    /\ LET key   == t.key
           coin  == key[1]
           cur   == get_whale_positions(resp)
           out   == VerifyOutcome(coin, t.attempt, cur)
           vlog  == Append(t.vlog, Observation(coin, cur))
           close == CloseGate(out = "closed", t.prev_value)
           res   == IF out = "next" THEN "next"
                    ELSE IF out = "exists" THEN "exists"
                    ELSE IF ~close THEN "below"
                    ELSE IF Has(positions, coin) THEN "CLOSE"
                    ELSE "error"
           e     == [Event("verify", coin, key[2], res) EXCEPT
                       !.prev = Opt(positions, coin), !.vlog = vlog,
                       !.tracked_value = t.prev_value,
                       !.tracked_side = t.prev_side]
       IN  /\ ev' = e
           /\ CASE res = "next" ->
                     /\ tasks' = (tasks \ {t}) \cup
                                 {[t EXCEPT !.pc = "vsleep", !.attempt = t.attempt + 1,
                                            !.vlog = vlog]}
                     /\ sent' = <<>>
                     /\ UNCHANGED <<positions, saved, pending_fills, fill_timers, sweep>>
                [] res \in {"exists", "below"} ->
                     \* lines 523-527
                     /\ tasks' = tasks \ {t}
                     /\ pending_fills' = DelKey(pending_fills, key)
                     /\ fill_timers' = fill_timers \ {key}
                     /\ sent' = <<>>
                     /\ UNCHANGED <<positions, saved, sweep>>
                [] res = "CLOSE" ->
                     \* lines 520-522, 588-589, 600-604
                     /\ positions' = Del(positions, coin)
                     /\ sweep' = Detach(sweep, coin, Get(positions, coin))
                     /\ sent' = <<send_close_alert(coin, t.prev_side, t.prev_value)>>
                     /\ saved' = positions'
                     /\ tasks' = tasks \ {t}
                     /\ pending_fills' = DelKey(pending_fills, key)
                     /\ fill_timers' = fill_timers \ {key}
                [] res = "error" ->
                     \* line 522 raises KeyError: the task ends there
                     /\ tasks' = tasks \ {t}
                     /\ sent' = <<>>
                     /\ UNCHANGED <<positions, saved, pending_fills, fill_timers, sweep>>
    /\ UNCHANGED <<seen_trades, loop>>

-----------------------------------------------------------------------------
(* verify_all_positions *)

\* every tracked coin taken for missing
coins_to_verify_close_All(pos, cur) == [i \in 1..Len(pos) |-> pos[i].coin]

\* lines 349-352: the tracked coins missing from the snapshot, in table order
coins_to_verify_close(pos, cur) ==
    LET missing == SelectSeq(pos, LAMBDA e : e.coin \notin DOMAIN cur)
    IN  [i \in 1..Len(missing) |-> missing[i].coin]

\* history: what the sweep's snapshot says of the tracked coins it holds, in
\* table order
TrackedInSnapshot(pos, cur) ==
    LET present == SelectSeq(pos, LAMBDA e : e.coin \in DOMAIN cur)
    IN  [i \in 1..Len(present) |-> cur[present[i].coin]]

\* the entry object tracked_pos refers to
TrackedPos(sw) == IF sw.detached = <<>> THEN Get(positions, sw.coin) ELSE sw.detached[1]

\* lines 339-352: the sweep starts
SweepStart(resp) ==
    /\ loop.pc = "sweep_start"
    /\ LET cur == get_whale_positions(resp)
       IN  IF positions = <<>>
           THEN /\ loop' = [loop EXCEPT !.pc = "poll"]
                /\ sweep' = NoSweep
                /\ ev' = Event("sweep_start", "", "", "untracked")
           ELSE IF IsEmpty(cur)
           THEN /\ loop' = [loop EXCEPT !.pc = "poll"]
                /\ sweep' = NoSweep
                /\ ev' = [Event("sweep_start", "", "", "skipped") EXCEPT
                            !.empty = NoPositionIn(resp)]
           ELSE /\ loop' = [loop EXCEPT !.pc = "sweep_coin"]
                /\ sweep' = [NoSweep EXCEPT !.todo = coins_to_verify_close(positions, cur)]
                /\ ev' = [Event("sweep_start", "", "", "compared") EXCEPT
                            !.empty = NoPositionIn(resp),
                            !.gt = TrackedInSnapshot(positions, cur)]
    /\ sent' = <<>>
    /\ UNCHANGED <<positions, saved, pending_fills, fill_timers, tasks, seen_trades>>

\* lines 355-356 and 383-387: the next coin of the list, or the end of the sweep
SweepCoin ==
    /\ loop.pc = "sweep_coin"
    /\ IF sweep.todo = <<>>
       THEN /\ loop' = [loop EXCEPT !.pc = "poll"]
            /\ saved' = IF sweep.positions_closed > 0 THEN positions ELSE saved
            /\ sweep' = NoSweep
            /\ ev' = Event("sweep_end", "", "",
                           IF sweep.positions_closed > 0 THEN "saved" ELSE "kept")
       ELSE LET coin == Head(sweep.todo)
            IN  IF Has(positions, coin)
                THEN /\ loop' = [loop EXCEPT !.pc = "sweep_verify"]
                     /\ sweep' = [sweep EXCEPT !.todo = Tail(sweep.todo), !.coin = coin,
                                               !.detached = <<>>, !.attempt = 0,
                                               !.vlog = <<>>]
                     /\ ev' = [Event("sweep_coin", coin, "", "verify") EXCEPT
                                 !.prev = Opt(positions, coin)]
                     /\ saved' = saved
                ELSE \* line 356 raises KeyError; line 838 catches it, line 842 sleeps
                     /\ loop' = OnException(loop)
                     /\ sweep' = NoSweep
                     /\ ev' = Event("sweep_coin", coin, "", "error")
                     /\ saved' = saved
    /\ sent' = <<>>
    /\ UNCHANGED <<positions, pending_fills, fill_timers, tasks, seen_trades>>

\* lines 359-381: one attempt of the verification called at line 359, the
\* first one at once and the others after the delay
SweepVerify(resp) ==
    /\ \/ loop.pc = "sweep_verify"
       \/ loop.pc = "sweep_sleep" /\ ~Running
    /\ LET coin    == sweep.coin
           cur     == get_whale_positions(resp)
           out     == VerifyOutcome(coin, sweep.attempt, cur)
           vlog    == Append(sweep.vlog, Observation(coin, cur))
           tracked == TrackedPos(sweep)
           res     == IF out = "next" THEN "next"
                      ELSE IF out = "exists" THEN "exists"
                      ELSE IF Has(positions, coin) THEN "CLOSE"
                      ELSE "error"
           e       == [Event("sweep_verify", coin, "", res) EXCEPT
                         !.prev = Opt(positions, coin), !.vlog = vlog,
                         !.tracked_value = tracked.value,
                         !.tracked_side = tracked.side]
       IN  /\ ev' = e
           /\ CASE res = "next" ->
                     /\ loop' = [loop EXCEPT !.pc = "sweep_sleep"]
                     /\ sweep' = [sweep EXCEPT !.attempt = sweep.attempt + 1,
                                               !.vlog = vlog]
                     /\ sent' = <<>>
                     /\ UNCHANGED positions
                [] res = "exists" ->
                     \* line 381
                     /\ loop' = [loop EXCEPT !.pc = "sweep_coin"]
                     /\ sweep' = [sweep EXCEPT !.coin = "", !.detached = <<>>,
                                               !.attempt = 0, !.vlog = <<>>]
                     /\ sent' = <<>>
                     /\ UNCHANGED positions
                [] res = "CLOSE" ->
                     \* lines 361-379
                     /\ loop' = [loop EXCEPT !.pc = "sweep_coin"]
                     /\ sweep' = [sweep EXCEPT !.coin = "", !.detached = <<>>,
                                               !.attempt = 0, !.vlog = <<>>,
                                               !.positions_closed = sweep.positions_closed + 1]
                     /\ sent' = <<send_close_alert(coin, tracked.side, tracked.value)>>
                     /\ positions' = Del(positions, coin)
                [] res = "error" ->
                     \* the alert of lines 370-376 is sent, then line 378 raises
                     \* KeyError; line 838 catches it, line 842 sleeps
                     /\ loop' = OnException(loop)
                     /\ sweep' = NoSweep
                     /\ sent' = <<send_close_alert(coin, tracked.side, tracked.value)>>
                     /\ UNCHANGED positions
    /\ UNCHANGED <<saved, pending_fills, fill_timers, tasks, seen_trades>>

-----------------------------------------------------------------------------
(* start and sync_positions_on_startup *)

\* the orders in which an answer can list the instruments
Orders ==
    {o \in [1..Cardinality(AllCoins) -> AllCoins] :
        \A i, j \in 1..Cardinality(AllCoins) : i # j => o[i] # o[j]}

\* lines 856-867: every position of the snapshot worth MIN_POSITION_VALUE or
\* more is written to the table, in the order of the snapshot
RECURSIVE SyncEntries(_, _, _)
SyncEntries(pos, cur, ord) ==
    IF ord = <<>>
    THEN pos
    ELSE LET coin == Head(ord)
         IN  IF coin \in DOMAIN cur /\ cur[coin].value >= MIN_POSITION_VALUE
             THEN SyncEntries(Put(pos, coin, FromGt(cur[coin])), cur, Tail(ord))
             ELSE SyncEntries(pos, cur, Tail(ord))

\* line 867: positions_found
positions_found(cur) ==
    Cardinality({c \in DOMAIN cur : cur[c].value >= MIN_POSITION_VALUE})

\* lines 884-893 and 844-878: start tests the connection and, if the test
\* succeeds, syncs the table with ground truth; then monitor_loop begins
SyncStartup(api_ok, resp, ord) ==
    /\ loop.pc = "start"
    /\ loop' = [loop EXCEPT !.pc = "sleep"]
    /\ LET cur == get_whale_positions(resp)
       IN  IF ~api_ok
           THEN /\ ev' = Event("sync", "", "", "no_api")
                /\ UNCHANGED <<positions, saved>>
           ELSE IF IsEmpty(cur)
           THEN /\ ev' = [Event("sync", "", "", "skipped") EXCEPT
                            !.empty = NoPositionIn(resp)]
                /\ UNCHANGED <<positions, saved>>
           ELSE /\ positions' = SyncEntries(positions, cur, ord)
                /\ saved' = IF positions_found(cur) > 0 THEN positions' ELSE saved
                /\ ev' = [Event("sync", "", "", "synced") EXCEPT
                            !.empty = NoPositionIn(resp)]
    /\ sent' = <<>>
    /\ UNCHANGED <<pending_fills, fill_timers, tasks, seen_trades, sweep>>

-----------------------------------------------------------------------------

Next ==
    \/ \E due \in BOOLEAN : LoopWake(due)
    \/ \E answer \in PollAnswers(CoreDeliveries) : Poll(answer)
    \/ \E resp \in ProbeResponses : SweepStart(resp)
    \/ SweepCoin
    \/ \E resp \in ProbeResponses : SweepVerify(resp)
    \/ \E t \in tasks, resp \in CoreResponses : Fire(t, resp)
    \/ \E t \in tasks, resp \in ProbeResponses : TaskVerify(t, resp)

\* the whole program: the monitor loop with its sweep, the tasks of both
\* keys of BTC, every interleaving of them
Spec == Init /\ [][Next]_vars

\* the flushed-batch evaluation alone, over every fill of the feed and every
\* answer of the exchange: the loop polls and never sweeps
NextFlush ==
    \/ LoopWake(FALSE)
    \/ \E answer \in PollAnswers(FreshDeliveries) : Poll(answer)
    \/ \E t \in tasks, resp \in FlushResponses : Fire(t, resp)
    \/ \E t \in tasks, resp \in FlushProbeResponses : TaskVerify(t, resp)

InitFlush == Init /\ Len(positions) <= 1

SpecFlush == InitFlush /\ [][NextFlush]_vars

\* the program from its start: the sync with ground truth, then the monitor
\* loop with its sweeps, the fill feed answering nothing
InitStartup ==
    /\ positions \in InitTables
    /\ saved = positions
    /\ pending_fills = <<>>
    /\ fill_timers = {}
    /\ tasks = {}
    /\ seen_trades = {}
    /\ loop = [pc |-> "start", cycle |-> 0, error_count |-> 0, wait |-> 0]
    /\ sweep = NoSweep
    /\ sent = <<>>
    /\ ev = Ev0

NextStartup ==
    \/ \E api_ok \in BOOLEAN, resp \in CoreResponses, ord \in Orders :
          SyncStartup(api_ok, resp, ord)
    \/ LoopWake(TRUE)
    \/ \E resp \in ProbeResponses : SweepStart(resp)
    \/ SweepCoin
    \/ \E resp \in ProbeResponses : SweepVerify(resp)
    \/ Poll(<<>>)

SpecStartup == InitStartup /\ [][NextStartup]_vars

\* one fill of the feed, delivered in time
StreakDeliveries == {d \in CoreDeliveries : d.trade.tid = 2}

\* the monitor loop over long runs of polls, the feed answering nothing or
\* its one fill; the loop never sweeps
NextBackoff ==
    \/ Wake(FALSE, MaxStreak)
    \/ \E answer \in PollAnswers(StreakDeliveries) : Poll(answer)
    \/ \E t \in tasks, resp \in ProbeResponses : Fire(t, resp)
    \/ \E t \in tasks, resp \in ProbeResponses : TaskVerify(t, resp)

SpecBackoff == Init /\ [][NextBackoff]_vars

\* the monitor loop with its sweep and the tasks of one key, over more
\* iterations, with the event loop's scheduling: a flow that can run does run
NextAvail ==
    \/ \E due \in BOOLEAN : Wake(due, MaxAvailCycles)
    \/ \E answer \in PollAnswers(StreakDeliveries) : Poll(answer)
    \/ \E resp \in ProbeResponses : SweepStart(resp)
    \/ SweepCoin
    \/ \E resp \in ProbeResponses : SweepVerify(resp)
    \/ \E t \in tasks, resp \in ProbeResponses : Fire(t, resp)
    \/ \E t \in tasks, resp \in ProbeResponses : TaskVerify(t, resp)

SpecAvail == Init /\ [][NextAvail]_vars /\ WF_vars(NextAvail)

\* the two fills of the sell side, one of them below the notional floor
FloorDeliveries == {d \in FreshDeliveries : d.trade.tid \in {3, 4}}

\* the enqueueing of every fill of the feed, by the loop and by direct calls
\* of queue_fill_for_aggregation, and the evaluations it starts
NextQueue ==
    \/ LoopWake(FALSE)
    \/ \E trade \in Feed : QueueFill(trade)
    \/ \E answer \in PollAnswers(FloorDeliveries) : Poll(answer)
    \/ \E t \in tasks, resp \in FlushProbeResponses : Fire(t, resp)
    \/ \E t \in tasks, resp \in FlushProbeResponses : TaskVerify(t, resp)

SpecQueue == InitFlush /\ [][NextQueue]_vars

\* the account has closed BTC and SOL: every request succeeds, and its
\* answer holds DOGE or nothing at all
ClosedOption(c) == IF c = "DOGE" THEN RawOptions(c) ELSE {}

ClosedResponses ==
    {r \in ResponsesOver([c \in AllCoins |-> ClosedOption(c)]) : r.status = 200}

\* the feed keeps answering with one old fill, too old to be aggregated
OldAnswer == <<[trade |-> Trade(1, "BTC", "B", 1, 50000), stale |-> TRUE]>>

InitClosed == Init /\ positions # <<>>

\* the monitor loop running for ever with a sweep in every iteration, under
\* the event loop's scheduling, after the account has closed its positions
NextClosed ==
    \/ WakeOn(TRUE, MaxCycles)
    \/ \E resp \in ClosedResponses : SweepStart(resp)
    \/ SweepCoin
    \/ \E resp \in ClosedResponses : SweepVerify(resp)
    \/ Poll(OldAnswer)

SpecClosed == InitClosed /\ [][NextClosed]_vars /\ WF_vars(NextClosed)

\* the feed answers every poll with fills, new ones or ones it has delivered
\* before
DebounceAnswers == PollAnswers(CoreDeliveries) \ {<<>>}

\* a step of the task of a key: the end of its window or of a verification
\* delay
TaskStep(key) ==
    \E t \in tasks, resp \in FlushProbeResponses :
       t.key = key /\ (Fire(t, resp) \/ TaskVerify(t, resp))

\* the monitor loop running for ever without sweeps and the tasks of both
\* keys of BTC; the event loop resumes a task whose sleep is over whenever
\* the flow that runs reaches a sleep
NextDebounce ==
    \/ WakeOn(FALSE, MaxCycles)
    \/ \E answer \in DebounceAnswers : Poll(answer)
    \/ \E key \in Keys : TaskStep(key)

SpecDebounce ==
    /\ InitFlush
    /\ [][NextDebounce]_vars
    /\ WF_vars(NextDebounce)
    /\ \A key \in Keys : SF_vars(TaskStep(key))

\* two fills of one key, each delivered in time or too late
StaleDeliveries == {d \in Deliveries : d.trade.tid \in {1, 2}}

\* the flushed-batch evaluation with a feed that delivers fills late and
\* more than once; the loop never sweeps
NextStale ==
    \/ LoopWake(FALSE)
    \/ \E answer \in PollAnswers(StaleDeliveries) : Poll(answer)
    \/ \E t \in tasks, resp \in FlushProbeResponses : Fire(t, resp)
    \/ \E t \in tasks, resp \in FlushProbeResponses : TaskVerify(t, resp)

SpecStale == InitFlush /\ [][NextStale]_vars

\* two fills the account makes after the program has recorded a thousand
\* ids, 1 to 1000 or all but the last of them
WindowFeed ==
    {Trade(2048, "BTC", "B", 2, 60000), Trade(1500, "BTC", "A", 2, 60000)}

WindowDeliveries == {[trade |-> tr, stale |-> FALSE] : tr \in WindowFeed}

InitWindow ==
    /\ positions = <<>>
    /\ saved = positions
    /\ pending_fills = <<>>
    /\ fill_timers = {}
    /\ tasks = {}
    /\ seen_trades \in {1..(SEEN_TRADES_MAX - 1), 1..SEEN_TRADES_MAX}
    /\ loop = [pc |-> "sleep", cycle |-> 0, error_count |-> 0, wait |-> 0]
    /\ sweep = NoSweep
    /\ sent = <<>>
    /\ ev = Ev0

\* the monitor loop near the limit of the seen-fill set; the loop never sweeps
NextWindow ==
    \/ Wake(FALSE, MaxWindowCycles)
    \/ \E answer \in PollAnswers(WindowDeliveries) : Poll(answer)
    \/ \E t \in tasks, resp \in FlushProbeResponses : Fire(t, resp)
    \/ \E t \in tasks, resp \in FlushProbeResponses : TaskVerify(t, resp)

SpecWindow == InitWindow /\ [][NextWindow]_vars



-----------------------------------------------------------------------------
(* Properties.  ev describes the step that led to the state, sent the     *)
(* alerts that step emitted.                                              *)

K == POSITION_CLOSE_VERIFY_ATTEMPTS

\* the step was an attempt of a close verification, of a task or of the sweep
VerifyStep == ev.op \in {"verify", "sweep_verify"}

\* the verification returned with that step
VerifyReturned == VerifyStep /\ ev.res # "next"

\* the step left the instrument's table entry as it was
EntryKept == Opt(positions, ev.coin) = ev.prev

\* the entry is still as the flow read it when its evaluation started
EntryAsRead ==
    /\ ev.prev # <<>>
    /\ ev.prev[1].value = ev.tracked_value
    /\ ev.prev[1].side = ev.tracked_side

\* C1. False-close resistance: a verification that did not see the
\* instrument on attempt 1 and sees it on a later attempt returns not-closed;
\* the calling flow sends no alert and leaves the table entry in place.
C1_FalseCloseResistance ==
    (/\ VerifyStep
     /\ Len(ev.vlog) >= 2
     /\ ev.vlog[1] # "present"
     /\ \E i \in 2..Len(ev.vlog) : ev.vlog[i] = "present")
    => (ev.res = "exists" /\ sent = <<>> /\ EntryKept)

C1_Witness ==
    /\ ev.op = "verify"
    /\ ev.vlog = <<"absent", "present">>
    /\ ev.res = "exists"
    /\ Has(positions, ev.coin)

\* C2. A failed fetch is never evidence of closure: a verification of which
\* every attempt, the last one included, got an empty snapshot does not
\* return closed; no CLOSE alert is sent and no entry is removed.
C2_FailedFetchNeverCloses ==
    (/\ VerifyReturned
     /\ Len(ev.vlog) = K
     /\ \A i \in 1..K : ev.vlog[i] = "empty")
    => (ev.res = "exists" /\ sent = <<>> /\ EntryKept)

\* C3. Confirmed close: an entry of value >= MIN_POSITION_VALUE, untouched
\* by other flows since the evaluation read it, that no attempt of the
\* verification sees, gives exactly one CLOSE alert with the entry's side and
\* value and is removed from the table; the flushed-batch path saves the
\* table with that step, the sweep when it ends.
C3_ConfirmedClose ==
    /\ (/\ VerifyStep
        /\ Len(ev.vlog) = K
        /\ \A i \in 1..K : ev.vlog[i] # "present"
        /\ EntryAsRead
        /\ ev.prev[1].value >= MIN_POSITION_VALUE)
       => /\ Len(sent) = 1
          /\ sent[1].type = "CLOSE"
          /\ sent[1].coin = ev.coin
          /\ sent[1].side = ev.prev[1].side
          /\ sent[1].value = ev.prev[1].value
          /\ ~Has(positions, ev.coin)
          /\ ev.op = "verify" => ~Has(saved, ev.coin)
    /\ (ev.op = "sweep_end" /\ ev.res = "saved") => saved = positions

C3_Witness ==
    /\ ev.op = "verify"
    /\ ev.vlog = <<"absent", "absent", "absent">>
    /\ EntryAsRead
    /\ ev.prev[1].value >= MIN_POSITION_VALUE
    /\ Len(sent) = 1
    /\ sent[1].type = "CLOSE"
    /\ ~Has(positions, ev.coin)
    /\ ~Has(saved, ev.coin)

\* C4. CLOSE threshold gating on both paths: an entry of value below
\* MIN_POSITION_VALUE gives no CLOSE alert, and the table is left unchanged.
C4_CloseGatedOnBothPaths ==
    (/\ VerifyReturned
     /\ ev.prev # <<>>
     /\ ev.prev[1].value < MIN_POSITION_VALUE)
    => (sent = <<>> /\ EntryKept)

\* C5. OPEN threshold gating: a batch evaluated for an instrument with no
\* table entry, which ground truth shows with a value below
\* MIN_POSITION_VALUE, gives no alert and no table entry.
C5_OpenGatedByGroundTruth ==
    (/\ ev.op = "fire"
     /\ ev.batch # <<>>
     /\ ev.prev = <<>>
     /\ ev.gt # <<>>
     /\ ev.gt[1].value < MIN_POSITION_VALUE)
    => (sent = <<>> /\ ~Has(positions, ev.coin))

\* C6. OPEN emission: a batch evaluated for an instrument with no table
\* entry, which ground truth shows with a value >= MIN_POSITION_VALUE, gives
\* an OPEN alert and an entry made from ground truth, whatever the value of
\* the batch.
C6_OpenFromGroundTruth ==
    (/\ ev.op = "fire"
     /\ ev.batch # <<>>
     /\ ev.prev = <<>>
     /\ ev.gt # <<>>
     /\ ev.gt[1].value >= MIN_POSITION_VALUE)
    => /\ Len(sent) = 1
       /\ sent[1].type = "OPEN"
       /\ Opt(positions, ev.coin) = <<FromGt(ev.gt[1])>>

\* C7. Partial-change gating: for an entry of size > 0 that ground truth
\* shows too, with pct = |gt.size - prev.size| / prev.size: pct >= 15 %
\* gives exactly one PARTIAL_INCREASE (size grew) or PARTIAL_CLOSE alert
\* with that pct, pct < 15 % gives no alert; either way the entry's size and
\* value are ground truth's afterwards.
C7_PartialChangeGating ==
    (/\ ev.op = "fire"
     /\ ev.batch # <<>>
     /\ ev.prev # <<>>
     /\ ev.prev[1].size > 0
     /\ ev.gt # <<>>)
    => LET prev == ev.prev[1]
           gt   == ev.gt[1]
           diff == Abs(gt.size - prev.size)
       IN  /\ Has(positions, ev.coin)
           /\ Get(positions, ev.coin).size = gt.size
           /\ Get(positions, ev.coin).value = gt.value
           /\ IF diff * 100 >= PARTIAL_CHANGE_THRESHOLD_PCT * prev.size
              THEN /\ Len(sent) = 1
                   /\ sent[1].type = (IF gt.size > prev.size
                                      THEN "PARTIAL_INCREASE" ELSE "PARTIAL_CLOSE")
                   /\ sent[1].coin = ev.coin
                   /\ sent[1].pct.num * prev.size = diff * sent[1].pct.den
              ELSE sent = <<>>

\* an increase of exactly 15 %, alerted
C7_Witness ==
    /\ ev.op = "fire"
    /\ ev.prev # <<>>
    /\ ev.gt # <<>>
    /\ ev.prev[1].size = 20
    /\ ev.gt[1].size = 23
    /\ Len(sent) = 1
    /\ sent[1].type = "PARTIAL_INCREASE"
    /\ Get(positions, ev.coin).size = 23

\* C8. Severity stability: the tier of a CLOSE alert is the tier of the
\* entry's max_value.
C8_CloseTierFromMaxValue ==
    (/\ VerifyStep
     /\ ev.prev # <<>>
     /\ Len(sent) = 1
     /\ sent[1].type = "CLOSE")
    => sent[1].tier = get_position_tier(ev.coin, ev.prev[1].max_value)

\* C9. Debounce coalescing: the fills that re-armed a key's timer one after
\* the other, each before the timer of the one before expired, are
\* evaluated once, and the evaluation's aggregate size is the sum of their
\* sizes and its aggregate price their size-weighted average price.
C9_DebounceCoalescing ==
    (ev.op = "fire" /\ ev.batch # <<>>)
    => /\ ev.total_size = SumSz(ev.burst)
       /\ ev.avg_price.num * SumSz(ev.burst) = SumPxSz(ev.burst) * ev.avg_price.den
       /\ ~\E t \in tasks : t.key = <<ev.coin, ev.side>> /\ t.pc = "window"

\* C10. Transient-state cleanup: when an evaluation started by a timer
\* ends, on any path, the key has neither a pending batch nor a timer entry.
C10_TransientCleanup ==
    (/\ ev.op \in {"fire", "verify"}
     /\ ev.res \notin {"verify", "next"})
    => /\ <<ev.coin, ev.side>> \notin DOMAIN pending_fills
       /\ <<ev.coin, ev.side>> \notin fill_timers

\* C11. At most one pending evaluation per key: a key never has two tasks
\* that are neither finished nor cancelled; the timer entry of a key names
\* its live task, so that the next fill of the key cancels it; after a poll
\* every enqueued fill's key has its task waiting for the window; and the
\* task that evaluates a batch is the one the batch's last fill armed: a
\* task replaced before its window expired never evaluates.
C11_OnePendingEvaluationPerKey ==
    /\ \A key \in Keys : Cardinality({t \in tasks : t.key = key}) <= 1
    /\ \A t \in tasks : t.key \in fill_timers
    /\ ev.op = "poll" =>
          \A i \in 1..Len(ev.batch) :
             \E t \in tasks : /\ t.key = <<ev.batch[i].coin, ev.batch[i].side>>
                              /\ t.pc = "window"
    /\ (ev.op = "fire" /\ ev.batch # <<>>) =>
          ev.batch[Len(ev.batch)] = ev.burst[Len(ev.burst)]

\* a batch of two fills, the second of which replaced the task of the first
C11_Witness ==
    /\ ev.op = "fire"
    /\ Len(ev.burst) = 2
    /\ ev.batch = ev.burst

\* C12. Dedup idempotence: a poll enqueues no fill whose id the seen-fill
\* set holds, and it enqueues exactly once every fresh fill above the
\* notional floor whose id the set does not hold; so a fill delivered by two
\* polls between which the set kept its id is enqueued by the first only.
C12_DedupIdempotence ==
    [][\A answer \in PollAnswers(CoreDeliveries) :
          Poll(answer) =>
             /\ \A i \in 1..Len(ev'.batch) : ev'.batch[i].tid \notin seen_trades
             /\ \A i \in 1..Len(answer) :
                   (/\ ~answer[i].stale
                    /\ answer[i].trade.sz * answer[i].trade.px >= MIN_FILL_NOTIONAL
                    /\ answer[i].trade.tid \notin seen_trades)
                   => Cardinality({j \in 1..Len(ev'.batch) :
                                      ev'.batch[j].tid = answer[i].trade.tid}) = 1]_vars

\* a poll whose answer holds fills, all of them fresh and above the floor,
\* and enqueues none: every one of them was delivered before
C12_Witness ==
    /\ ev.op = "poll"
    /\ ev.res = "ok"
    /\ ev.batch = <<>>
    /\ seen_trades # {}

\* C13. A failed ground-truth fetch never mutates the table: an evaluation
\* of a flushed batch whose snapshot is empty, and a verification attempt
\* that does not confirm a close, leave the position table as it was.
C13_FailedFetchKeepsTable ==
    [][(\/ ev'.op = "fire" /\ ev'.batch # <<>> /\ ev'.empty
        \/ ev'.op = "verify" /\ ev'.res # "CLOSE")
       => positions' = positions]_vars

\* C14. Ambiguous emptiness at sweep and startup: a sweep or a startup sync
\* whose snapshot holds no position starts no close verification, sends no
\* alert, and leaves the position table and the persisted snapshot as they
\* were.
C14_EmptySnapshotIsInconclusive ==
    [][(ev'.op \in {"sweep_start", "sync"} /\ ev'.empty)
       => /\ positions' = positions
          /\ saved' = saved
          /\ sent' = <<>>
          /\ sweep' = NoSweep
          /\ loop'.pc \notin {"sweep_coin", "sweep_verify", "sweep_sleep"}]_vars

\* a sync that got no position while the table holds entries
C14_Witness ==
    /\ ev.op = "sync"
    /\ ev.res = "skipped"
    /\ ev.empty
    /\ positions # <<>>
    /\ saved = positions

\* C15. Persistence after every mutation: when the evaluation of a flushed
\* batch ends having created an entry with an OPEN alert or having changed
\* the instrument's entry, with an alert or silently, when it ends with a
\* confirmed close, and when a sweep that removed entries ends, the
\* persisted snapshot equals the table.
C15_PersistedAfterEveryMutation ==
    /\ (ev.op = "fire" /\ ev.res = "OPEN") => saved = positions
    /\ (/\ ev.op = "fire"
        /\ ev.batch # <<>>
        /\ ev.res # "verify"
        /\ ev.prev # <<>>
        /\ Opt(positions, ev.coin) # ev.prev) => saved = positions
    /\ (ev.op = "verify" /\ ev.res = "CLOSE") => saved = positions
    /\ (ev.op = "sweep_end" /\ ev.res = "saved") => saved = positions

C17_NoDestructiveInterleaving ==
    (ev.op \in {"sweep_verify", "sweep_coin"}) =>
       /\ ev.res # "error"
       /\ (sent # <<>> /\ sent[1].type = "CLOSE") => ev.prev # <<>>

\* C18. An in-flight close verification is never cancelled: a task that
\* waits between two attempts of its verification stays as it is until it
\* makes its next attempt; no other step, the enqueueing of a fill of its
\* key included, ends it.
C18_VerificationNeverCancelled ==
    [][\A t \in tasks :
          t.pc = "vsleep" =>
             \/ t \in tasks'
             \/ ev'.op = "verify" /\ <<ev'.coin, ev'.side>> = t.key]_vars

\* C19. Poll backoff: the n-th consecutive empty answer makes the loop wait
\* min(base * 2^min(n, 5), 60) seconds, which is at most 60 and not less
\* than the wait before it in the streak; a non-empty answer sets the
\* counter to 0 and the wait to the base interval.
C19_PollBackoff ==
    [][ev'.op = "poll" =>
          IF ev'.res = "empty"
          THEN LET n == loop.error_count + 1
               IN  /\ loop'.error_count = n
                   /\ loop'.wait = Min(CHECK_INTERVAL * 2 ^ Min(n, 5), 60)
                   /\ loop'.wait <= 60
                   /\ loop.error_count > 0 => loop'.wait >= loop.wait
          ELSE /\ loop'.error_count = 0
               /\ loop'.wait = CHECK_INTERVAL]_vars

\* the sixth empty answer in a row: the exponent and the wait are capped
C19_Witness ==
    /\ ev.op = "poll"
    /\ ev.res = "empty"
    /\ loop.error_count = 6
    /\ loop.wait = 60

\* an exception has just left the iteration of the monitor loop
LoopException == ev.op \in {"sweep_coin", "sweep_verify"} /\ ev.res = "error"

\* C20. Availability: an exception raised inside an iteration of the monitor
\* loop, by the sweep, leaves the loop in its pause of twice the base
\* interval, and the loop then runs its next iteration.
C20_Availability ==
    /\ [](LoopException => (loop.pc = "sleep" /\ loop.wait = 2 * CHECK_INTERVAL))
    /\ (LoopException /\ loop.cycle < MaxAvailCycles) ~> (ev.op = "wake")

C20_Witness ==
    /\ LoopException
    /\ loop.pc = "sleep"
    /\ loop.cycle < MaxAvailCycles

\* C21. Seen-fill window: a poll that leaves more than 1000 ids in the
\* seen-fill set truncates it to 500 ids, and every id the poll recorded is
\* among them.
C21_SeenWindowKeepsRecent ==
    [][\A answer \in PollAnswers(WindowDeliveries) :
          Poll(answer) =>
             LET recorded == {answer[i].trade.tid : i \in 1..Len(answer)} \ seen_trades
             IN  Cardinality(seen_trades \cup recorded) > SEEN_TRADES_MAX
                 => /\ Cardinality(seen_trades') = SEEN_TRADES_KEEP
                    /\ recorded \subseteq seen_trades']_vars

\* the fills of every pending batch
Pending(pf) == UNION {{pf[k][i] : i \in 1..Len(pf[k])} : k \in DOMAIN pf}

\* C22. Stale fills: a fill that is too old when a poll first sees it is
\* appended to no pending batch and arms no timer, and its id is in the
\* seen-fill set afterwards; and a poll enqueues no fill whose id the set
\* holds, so a later delivery of that id, in time or not, is dropped too.
C22_StaleFillsRecordedNotQueued ==
    [][\A answer \in PollAnswers(StaleDeliveries) :
          Poll(answer) =>
             /\ \A i \in 1..Len(answer) :
                   LET tr == answer[i].trade
                   IN  /\ (answer[i].stale /\ tr.tid \notin seen_trades) =>
                            /\ tr.tid \in seen_trades'
                            /\ tr \notin Pending(pending_fills') \ Pending(pending_fills)
                            /\ \A j \in 1..Len(ev'.batch) : ev'.batch[j] # tr
                       /\ tr.tid \in seen_trades =>
                            /\ tr.tid \in seen_trades'
                            /\ \A j \in 1..Len(ev'.batch) : ev'.batch[j] # tr
             /\ Pending(pending_fills') =
                   Pending(pending_fills) \cup {ev'.batch[j] : j \in 1..Len(ev'.batch)}
             /\ ev'.batch = <<>> => (tasks' = tasks /\ fill_timers' = fill_timers)]_vars

\* the first poll delivered both fills, which are above the notional floor,
\* too late: both ids are recorded and nothing is pending
C22_Witness ==
    /\ ev.op = "poll"
    /\ ev.res = "ok"
    /\ loop.cycle = 1
    /\ seen_trades = {1, 2}
    /\ pending_fills = <<>>
    /\ fill_timers = {}
    /\ tasks = {}

Notional(trade) == trade.sz * trade.px

\* C23. Notional floor: enqueueing a fill whose size x price is below 10000,
\* by a call of queue_fill_for_aggregation or by a poll, leaves the pending
\* batches, the timers and the tasks as they were; and every fill of every
\* pending batch has a notional of at least 10000.
C23_NotionalFloor ==
    /\ [](\A tr \in Pending(pending_fills) : Notional(tr) >= MIN_FILL_NOTIONAL)
    /\ [][/\ (ev'.op = "queue" /\ Notional(ev'.batch[1]) < MIN_FILL_NOTIONAL) =>
               /\ pending_fills' = pending_fills
               /\ fill_timers' = fill_timers
               /\ tasks' = tasks
           /\ \A answer \in PollAnswers(FloorDeliveries) :
                 (/\ Poll(answer)
                  /\ \A i \in 1..Len(answer) :
                        Notional(answer[i].trade) < MIN_FILL_NOTIONAL) =>
                    /\ pending_fills' = pending_fills
                    /\ fill_timers' = fill_timers
                    /\ tasks' = tasks]_vars

\* a fill of 5000 has been handed to queue_fill_for_aggregation while a
\* batch of its key waits for its window: the batch and the task are as
\* they were
C23_Witness ==
    /\ ev.op = "queue"
    /\ ev.res = "dropped"
    /\ Notional(ev.batch[1]) = 5000
    /\ <<ev.coin, ev.side>> \in DOMAIN pending_fills
    /\ \E t \in tasks : t.key = <<ev.coin, ev.side>> /\ t.pc = "window"

\* C24. High-water invariant: every entry of the position table has
\* max_value >= value.
C24_HighWater ==
    \A i \in 1..Len(positions) : positions[i].max_value >= positions[i].value

\* C25. Table membership invariant: while no evaluation is in the middle of
\* its verification, every entry of the position table has size > 0 and the
\* side LONG or SHORT.
C25_TableMembership ==
    (\A t \in tasks : t.pc = "window") =>
       \A i \in 1..Len(positions) :
          /\ positions[i].size > 0
          /\ positions[i].side \in {"LONG", "SHORT"}

\* a is the beginning of b
IsPrefix(a, b) == Len(a) <= Len(b) /\ \A i \in 1..Len(a) : a[i] = b[i]

\* C26. No partial execution of a superseded evaluation: the steps that
\* leave an evaluation suspended (its start of the verification, an attempt
\* that is not the last) change neither the table nor its persisted copy nor
\* the pending batches, and send nothing; a poll that enqueues a fill of a
\* key ends the key's task wherever it is suspended, in its window or in a
\* verification delay, and that step changes no table entry, sends nothing
\* and keeps every fill of the key's batch.
C26_NoPartialExecution ==
    [][/\ (\/ ev'.op = "fire" /\ ev'.res = "verify"
           \/ ev'.op = "verify" /\ ev'.res = "next") =>
              /\ positions' = positions
              /\ saved' = saved
              /\ pending_fills' = pending_fills
              /\ fill_timers' = fill_timers
              /\ sent' = <<>>
       /\ ev'.op = "poll" =>
              \A t \in tasks :
                 IF \E i \in 1..Len(ev'.batch) :
                       <<ev'.batch[i].coin, ev'.batch[i].side>> = t.key
                 THEN /\ t \notin tasks'
                      /\ \A u \in tasks' : u.key = t.key => u.pc = "window"
                      /\ positions' = positions
                      /\ saved' = saved
                      /\ sent' = <<>>
                      /\ IsPrefix(Batch(pending_fills, t.key),
                                  Batch(pending_fills', t.key))
                 ELSE t \in tasks']_vars

\* a fill of the buy side has arrived while the task of the fill before it
\* waited between two attempts of its verification: that task is gone, its
\* fill is still in the batch, and the table holds the entry
C26_Witness ==
    /\ ev.op = "poll"
    /\ seen_trades = {1, 2}
    /\ sent = <<>>
    /\ Has(positions, "BTC")
    /\ Get(positions, "BTC").size > 0
    /\ Len(Batch(pending_fills, <<"BTC", "B">>)) = 2
    /\ \E t \in tasks : (t.key = <<"BTC", "B">> /\ t.pc = "window" /\ Len(t.burst) = 1)
    /\ \A t \in tasks : t.pc = "window"

\* C27. Verification is bounded and short-circuits: a verification makes
\* at most K fetches and returns with the K-th at the latest; its first
\* attempt is made at once and every other one after the delay; and the
\* attempt that sights the instrument is its last one: it returns not-closed
\* and the flow makes no further attempt.
C27_VerificationBounded ==
    [][ev'.op \in {"verify", "sweep_verify"} =>
          LET n == Len(ev'.vlog)
          IN  /\ n >= 1 /\ n <= K
              /\ n = K => ev'.res # "next"
              /\ \A i \in 1..(n - 1) : ev'.vlog[i] # "present"
              /\ ev'.vlog[n] = "present" => ev'.res = "exists"
              /\ IF ev'.op = "sweep_verify"
                 THEN /\ loop.pc = (IF n = 1 THEN "sweep_verify" ELSE "sweep_sleep")
                      /\ loop'.pc = (IF ev'.res = "next" THEN "sweep_sleep"
                                     ELSE IF ev'.res = "error" THEN "sleep"
                                     ELSE "sweep_coin")
                 ELSE /\ \E t \in tasks :
                            /\ t.key = <<ev'.coin, ev'.side>>
                            /\ t.pc = (IF n = 1 THEN "verify" ELSE "vsleep")
                            /\ t.attempt = n - 1
                      /\ IF ev'.res = "next"
                         THEN \E t \in tasks' :
                                 /\ t.key = <<ev'.coin, ev'.side>>
                                 /\ t.pc = "vsleep"
                                 /\ t.attempt = n
                         ELSE \A t \in tasks' : t.key # <<ev'.coin, ev'.side>>]_vars

\* the sweep's verification got a failed fetch, waited, and sighted the
\* instrument on its second attempt: it made no third one
C27_Witness ==
    /\ ev.op = "sweep_verify"
    /\ ev.vlog = <<"empty", "present">>
    /\ ev.res = "exists"
    /\ loop.pc = "sweep_coin"
    /\ sweep.attempt = 0

\* C28. Eventual close detection without fills: a tracked position of value
\* >= MIN_POSITION_VALUE that every successful fetch lacks, and of which no
\* fill is seen any more, is eventually removed from the table by the
\* sweep, with a CLOSE alert, whether the account still holds other
\* positions or none.
C28_EventualCloseDetection ==
    \A c \in Coins :
       (Has(positions, c) /\ Get(positions, c).value >= MIN_POSITION_VALUE)
       ~> (/\ ev.op = "sweep_verify"
           /\ ev.coin = c
           /\ ev.res = "CLOSE"
           /\ ~Has(positions, c))

\* C29. Debounce liveness: a key with a pending batch is evaluated once its
\* fills have stopped arriving, and its batch and its timer are cleared
\* then; and the poll that enqueues a fill of a key leaves the key with one
\* task, waiting for a new window.
C29_DebounceLiveness ==
    /\ \A key \in Keys :
          (key \in DOMAIN pending_fills)
          ~> (key \notin DOMAIN pending_fills /\ key \notin fill_timers)
    /\ [][ev'.op = "poll" =>
             \A i \in 1..Len(ev'.batch) :
                \A t \in tasks' :
                   t.key = <<ev'.batch[i].coin, ev'.batch[i].side>> => t.pc = "window"]_vars

\* C30. Startup sync supersedes the reloaded table: after a sync with a
\* non-empty snapshot the table holds every instrument of the snapshot worth
\* MIN_POSITION_VALUE or more, with the snapshot's size, side and value; it
\* holds no instrument added with a smaller value; and it holds no reloaded
\* entry of an instrument the snapshot lacks.
C30_SyncSupersedesReload ==
    [][\A resp \in CoreResponses, ord \in Orders :
          LET cur == get_whale_positions(resp)
          IN  (SyncStartup(TRUE, resp, ord) /\ DOMAIN cur # {}) =>
                 /\ \A c \in DOMAIN cur :
                       IF cur[c].value >= MIN_POSITION_VALUE
                       THEN /\ Has(positions', c)
                            /\ Get(positions', c).size = cur[c].size
                            /\ Get(positions', c).side = cur[c].side
                            /\ Get(positions', c).value = cur[c].value
                       ELSE Has(positions', c) => Has(positions, c)
                 /\ \A c \in CoinsOf(positions') : c \in DOMAIN cur]_vars

\* C31. Side consistency: after the evaluation of a flushed batch for an
\* instrument that the table holds with a size > 0 and that ground truth
\* shows, the entry's side is ground truth's side, and so is the side of
\* the alert the evaluation sends.
C31_SideConsistency ==
    (/\ ev.op = "fire"
     /\ ev.batch # <<>>
     /\ ev.prev # <<>>
     /\ ev.prev[1].size > 0
     /\ ev.gt # <<>>)
    => /\ Has(positions, ev.coin)
       /\ Get(positions, ev.coin).side = ev.gt[1].side
       /\ \A i \in 1..Len(sent) : sent[i].side = ev.gt[1].side

====
